---- MODULE Spec2Model ----
(***************************************************************************)
(* The task/workflow orchestrator of src/api/agents/taskManager/main.js.   *)
(*                                                                         *)
(* One top-level taskManager call is a chain of iterations.  An iteration  *)
(* resolves the active task of the conversation, hands the action modules  *)
(* to the function-calling agent (the Reasoning Delegate), validates the   *)
(* agent's response, interprets its functions list into a pending update,  *)
(* writes the update, and recurses or returns.  The iteration suspends at  *)
(* its awaits; the actions below are the pieces between the awaits.        *)
(***************************************************************************)
EXTENDS Integers, Sequences, FiniteSets, TLC

\* ------------------------------------------------------------------ bounds
MaxTasks == 2   \* Task rows the store may hold
MaxFuncs == 2   \* functions the delegate invokes in one iteration

\* --------------------------------------------------------------- constants
maxIter == 3

\* JavaScript's undefined: the value of a missing property.
Undefined == "undefined"
\* A key that an update payload does not carry (as opposed to a key whose
\* value is undefined).
Absent == "absent"
\* findOne's "no document".
NoTask == 0
\* The length of a threadLogs that was not passed.
NoThreadLogs == -1

Turns == {1, 2}
ExtIds == {"c1"}

\* ------------------------------------------------ workflow / step documents
\* The Step documents of the store: name, next, failedNext, the job the
\* step declares and the step's own actions.
StepDoc ==
  [ s1 |-> [name |-> "collect", next |-> "s2",      failedNext |-> "s3",
            job |-> Undefined, actions |-> {}],
    s2 |-> [name |-> "confirm", next |-> Undefined, failedNext |-> Undefined,
            job |-> Undefined, actions |-> {}],
    s3 |-> [name |-> "recover", next |-> "s2",      failedNext |-> Undefined,
            job |-> "j2",      actions |-> {"sendEmail"}],
    u1 |-> [name |-> "triage",  next |-> Undefined, failedNext |-> "u1",
            job |-> Undefined, actions |-> {}] ]

\* The Job documents of the store, by _id: the job's actions.  Neither job
\* defines workflows of its own.
JobDoc ==
  [ j1 |-> [actions |-> {}],
    j2 |-> [actions |-> {"escalate"}] ]

StepIds == DOMAIN StepDoc

\* resources.copilotz.job.workflows (none) followed by
\* resources.copilotz.workflows.
allWorkflows ==
  << [_id |-> "w1", name |-> "Onboarding", firstStep |-> "s1",
      steps |-> <<"s1", "s2", "s3">>],
     [_id |-> "w2", name |-> "Support", firstStep |-> "u1",
      steps |-> <<"u1">>] >>

\* What a lookup that finds no workflow gives: nothing to read.
NoWorkflow ==
  [_id |-> Undefined, name |-> Undefined, firstStep |-> Undefined, steps |-> << >>]

\* models.workflows.findOne({_id}).
WorkflowById(id) ==
  LET idx == {i \in DOMAIN allWorkflows : allWorkflows[i]._id = id}
  IN  IF idx = {} THEN NoWorkflow ELSE allWorkflows[CHOOSE i \in idx : TRUE]

\* String.prototype.toLowerCase on the names that occur.
ToLowerCase(s) ==
  CASE s = "Onboarding" -> "onboarding"
    [] s = "ONBOARDING" -> "onboarding"
    [] s = "Support"    -> "support"
    [] OTHER            -> s

Min(S) == CHOOSE x \in S : \A y \in S : x <= y

\* Array.prototype.find over workflow.steps by _id: the step id or undefined.
FindStepById(wf, id) ==
  IF \E i \in DOMAIN wf.steps : wf.steps[i] = id THEN id ELSE Undefined

\* Array.prototype.find over workflow.steps by name.
FindStepByName(wf, name) ==
  LET idx == {i \in DOMAIN wf.steps : StepDoc[wf.steps[i]].name = name}
  IN  IF idx = {} THEN Undefined ELSE wf.steps[Min(idx)]

\* Array.prototype.findIndex over workflow.steps (0-based, -1 when absent).
FindStepIndex(wf, id) ==
  LET idx == {i \in DOMAIN wf.steps : wf.steps[i] = id}
  IN  IF idx = {} THEN -1 ELSE Min(idx) - 1

VARIABLES
  tasks,            \* the task store: row i is the Task with _id = i
  recent,           \* task ids by updatedAt, most recent first
  ignoreUndefined,  \* the store drops patch keys whose value is undefined
  copilotz,         \* taskManager.resources.copilotz: the ambient job and actions
  call              \* per turn: the top-level call in flight

vars == <<tasks, recent, ignoreUndefined, copilotz, call>>

\* ------------------------------------------------------------ the task store
\* obj[key], or undefined when obj has no such own property.
Prop(obj, key) == IF key \in DOMAIN obj THEN obj[key] ELSE Undefined

\* Mutant of TasksFindOneActive: the filter leaves out status, so the most
\* recently updated Task of the conversation is found whatever its status.
TasksFindOneAnyStatus(T, R, extId) ==
  LET hits == {i \in DOMAIN R : T[R[i]].extId = extId}
  IN  IF hits = {} THEN NoTask ELSE R[Min(hits)]

\* models.tasks.findOne({extId, status: 'active'}, {sort: {updatedAt: -1}}):
\* the _id of the most recently updated active Task of the conversation.
TasksFindOneActive(T, R, extId) ==
  LET hits == {i \in DOMAIN R : /\ T[R[i]].extId = extId
                                /\ T[R[i]].status = "active"}
  IN  IF hits = {} THEN NoTask ELSE R[Min(hits)]

\* The recency order after a write to row id.
Touch(R, id) == <<id>> \o SelectSeq(R, LAMBDA x : x # id)

\* One field of a row under a patch value: an absent key leaves the field,
\* an undefined value is dropped or stored as the store build decides.
PatchField(old, new, ignore) ==
  IF new = Absent THEN old
  ELSE IF new = Undefined /\ ignore THEN old
  ELSE new

\* models.tasks.update({_id}, patch) on the row, patch keys status,
\* currentStep and context.  Of a Task's context the rows keep which object
\* it was last set to ({user} or {createdAt}); the per-step records written
\* through the dotted context.steps.<i>.* keys are never read back by the
\* orchestrator and are not kept.
TasksUpdate(T, id, patch, ignore) ==
  [T EXCEPT ![id] =
     [@ EXCEPT
        !.status      = PatchField(@, patch.status, ignore),
        !.currentStep = PatchField(@, patch.currentStep, ignore),
        !.context     = PatchField(@, patch.context, ignore)]]

\* ------------------------------------------------------- the update payload
\* const updateTaskPayload = {}
EmptyPayload ==
  [status |-> Absent, currentStep |-> Absent, context |-> Absent, steps |-> {}]

\* Object.keys(updateTaskPayload).length
PayloadKeys(p) ==
  (IF p.status # Absent THEN 1 ELSE 0) + (IF p.currentStep # Absent THEN 1 ELSE 0)
  + (IF p.context # Absent THEN 1 ELSE 0) + 3 * Cardinality(p.steps)

\* --------------------------------------------------------- action modules
\* Each gives the outcome of one invocation from the closure's bindings
\* (c.taskDoc, c.workflow): threw, the returned results, and the store and
\* bindings afterwards.
ActionNames == {"createTask", "listSteps", "getStep", "submit", "changeStep"}

Outcome(threw, results, T, R, c) ==
  [threw |-> threw, results |-> results, tasks |-> T, recent |-> R, call |-> c]

\* allWorkflows.find(wf => wf.name.toLowerCase() === workflowName.toLowerCase())
SelectWorkflow(workflowName) ==
  LET idx == {i \in DOMAIN allWorkflows :
                ToLowerCase(allWorkflows[i].name) = ToLowerCase(workflowName)}
  IN  IF idx = {} THEN NoWorkflow ELSE allWorkflows[Min(idx)]

\* Mutant of createTask: a name that matches no workflow falls back to the
\* first workflow of the list instead of raising.
createTaskFallsBack(T, R, c, workflowName) ==
  IF workflowName = Undefined
  THEN Outcome(TRUE, [error |-> TRUE], T, R, c)
  ELSE LET found == SelectWorkflow(workflowName)
           selectedWorkflow == IF found._id = Undefined THEN allWorkflows[1] ELSE found
           newId == Len(T) + 1
       IN Outcome(FALSE,
                  [ name |-> selectedWorkflow.name, context |-> "user",
                    extId |-> c.extId, status |-> "active",
                    workflow |-> selectedWorkflow._id,
                    currentStep |-> selectedWorkflow.firstStep ],
                  Append(T, [ extId       |-> c.extId,
                              status      |-> "active",
                              workflow    |-> selectedWorkflow._id,
                              currentStep |-> selectedWorkflow.firstStep,
                              context     |-> "user" ]),
                  Touch(R, newId),
                  [c EXCEPT !.taskDoc  = [ _id         |-> newId,
                                          workflow    |-> selectedWorkflow._id,
                                          currentStep |-> selectedWorkflow.firstStep ],
                            !.workflow = selectedWorkflow._id])

createTask(T, R, c, workflowName) ==
  IF workflowName = Undefined
  THEN Outcome(TRUE, [error |-> TRUE], T, R, c)
  ELSE LET selectedWorkflow == SelectWorkflow(workflowName) IN
    IF selectedWorkflow._id = Undefined
    THEN Outcome(TRUE, [error |-> TRUE], T, R, c)
    ELSE LET taskData == [ name        |-> selectedWorkflow.name,
                           context     |-> "user",
                           extId       |-> c.extId,
                           status      |-> "active",
                           workflow    |-> selectedWorkflow._id,
                           currentStep |-> selectedWorkflow.firstStep ]
             newId == Len(T) + 1
         IN Outcome(FALSE, taskData,
                    Append(T, [ extId       |-> taskData.extId,
                                status      |-> taskData.status,
                                workflow    |-> taskData.workflow,
                                currentStep |-> taskData.currentStep,
                                context     |-> taskData.context ]),
                    Touch(R, newId),
                    [c EXCEPT !.taskDoc  = [ _id         |-> newId,
                                            workflow    |-> taskData.workflow,
                                            currentStep |-> taskData.currentStep ],
                              !.workflow = selectedWorkflow._id])

listSteps(T, R, c) ==
  IF c.workflow = Undefined
  THEN Outcome(TRUE, [error |-> TRUE], T, R, c)
  ELSE Outcome(FALSE, [steps |-> WorkflowById(c.workflow).steps], T, R, c)

getStep(T, R, c, name) ==
  IF c.workflow = Undefined
  THEN Outcome(TRUE, [error |-> TRUE], T, R, c)
  ELSE LET step == FindStepByName(WorkflowById(c.workflow), name) IN
    IF step = Undefined
    THEN Outcome(TRUE, [error |-> TRUE], T, R, c)
    ELSE Outcome(FALSE, [_id |-> step, name |-> name], T, R, c)

submit(T, R, c, args) == Outcome(FALSE, [args |-> args], T, R, c)

\* Mutant of changeStep: the write is issued with the result of the lookup
\* before the lookup is tested.
changeStepWritesFirst(T, R, c, name, ignore) ==
  IF c.workflow = Undefined
  THEN Outcome(TRUE, [error |-> TRUE], T, R, c)
  ELSE LET step == FindStepByName(WorkflowById(c.workflow), name)
           T2   == TasksUpdate(T, c.taskDoc._id,
                               [EmptyPayload EXCEPT !.currentStep = step], FALSE)
           R2   == Touch(R, c.taskDoc._id)
       IN IF step = Undefined
          THEN Outcome(TRUE, [error |-> TRUE], T2, R2, c)
          ELSE Outcome(FALSE, [name |-> name, id |-> step], T2, R2, c)

changeStep(T, R, c, name, ignore) ==
  IF c.workflow = Undefined
  THEN Outcome(TRUE, [error |-> TRUE], T, R, c)
  ELSE LET step == FindStepByName(WorkflowById(c.workflow), name) IN
    IF step = Undefined
    THEN Outcome(TRUE, [error |-> TRUE], T, R, c)
    ELSE Outcome(FALSE, [name |-> name, id |-> step],
                 TasksUpdate(T, c.taskDoc._id,
                             [EmptyPayload EXCEPT !.currentStep = step], ignore),
                 Touch(R, c.taskDoc._id), c)

\* ------------------------------------------------------------ call state
\* const { name, args, results, status } = func
Func(name, args, results, status) ==
  [name |-> name, args |-> args, results |-> results, status |-> status]

NoTaskDoc == [_id |-> NoTask, workflow |-> Undefined, currentStep |-> Undefined]

NoResult == [returned |-> FALSE]

\* The configuration parameters of an invocation that passes none.
NoConfig ==
  [ instructions             |-> Undefined,
    outputSchema             |-> Undefined,
    overrideBaseOutputSchema |-> Undefined ]

\* What the caller passes: instructions, a schema to merge into the base
\* schema and a schema to use for the base one.  Both schemas require of a
\* response what _baseOutputSchema requires.
CallerConfig ==
  [ instructions             |-> "callerInstructions",
    outputSchema             |-> "callerOutputSchema",
    overrideBaseOutputSchema |-> "callerBaseOutputSchema" ]

\* const baseOutputSchema = overrideBaseOutputSchema || _baseOutputSchema
BaseOutputSchema(c) ==
  IF c.overrideBaseOutputSchema # Undefined
  THEN c.overrideBaseOutputSchema ELSE "_baseOutputSchema"

\* outputSchema = outputSchema ? mergeSchemas(baseOutputSchema, outputSchema)
\*                             : baseOutputSchema: the schemas merged.
OutputSchema(c) ==
  IF c.outputSchema # Undefined
  THEN <<BaseOutputSchema(c), c.outputSchema>> ELSE <<BaseOutputSchema(c)>>

\* No call in flight.
IdleCall ==
  [ pc          |-> "idle",
    extId       |-> Undefined,
    iterations  |-> 0,
    instructions |-> Undefined,             \* the instructions parameter
    outputSchema |-> Undefined,             \* the outputSchema parameter
    overrideBaseOutputSchema |-> Undefined, \* the overrideBaseOutputSchema parameter
    caller      |-> NoConfig,      \* what the caller of the top-level call passed
    input       |-> Undefined,     \* the input parameter
    threadLogs  |-> 0,             \* threadLogs: how many turns it holds
    fetches     |-> 0,             \* getThreadHistory calls of this top-level call
    taskDoc     |-> NoTaskDoc,     \* let taskDoc
    workflow    |-> Undefined,     \* let workflow (its _id)
    currentStep |-> Undefined,     \* let currentStep (its _id)
    found       |-> NoTask,        \* the Task the resolver loaded
    rows        |-> 0,             \* rows in the store when the iteration began
    message     |-> Undefined,     \* functionCallAgentResponse.message
    functions   |-> << >>,         \* functionCallAgentResponse.functions
    written     |-> FALSE,         \* this iteration wrote updateTaskPayload
    updateFailed |-> FALSE,        \* its models.tasks.update of the payload threw
    invocations |-> 0,             \* Reasoning Delegate calls of this top-level call
    result      |-> NoResult ]

Init ==
  /\ tasks = << >>
  /\ recent = << >>
  /\ ignoreUndefined \in BOOLEAN
  /\ copilotz = [job |-> "j1", actions |-> {}]
  /\ call = [t \in Turns |-> IdleCall]

\* A caller invokes taskManager({instructions, outputSchema,
\* overrideBaseOutputSchema, thread: {extId}, threadLogs, ...}) with
\* iterations = 0.
StartWith(t, extId, threadLogs) ==
  /\ call[t].pc = "idle"
  /\ call' = [call EXCEPT ![t] = [IdleCall EXCEPT !.pc = "start", !.extId = extId,
                                                  !.input = "hi",
                                                  !.threadLogs = threadLogs,
                                                  !.instructions = CallerConfig.instructions,
                                                  !.outputSchema = CallerConfig.outputSchema,
                                                  !.overrideBaseOutputSchema =
                                                     CallerConfig.overrideBaseOutputSchema,
                                                  !.caller = CallerConfig]]
  /\ UNCHANGED <<tasks, recent, ignoreUndefined, copilotz>>

\* The caller that passes the conversation's history, one turn long.
Start(t, extId) == StartWith(t, extId, 1)

\* models.steps.findOne({_id}): the Step document's id, or null.
StepsFindOne(id) == IF id \in StepIds THEN id ELSE Undefined

\* Lines 113-131: a step that declares another job than the ambient one
\* puts its job in copilotz.job, and copilotz.actions becomes the old list
\* followed by the job's and the step's actions.  Of the list the model keeps
\* the set of its elements (the list itself grows at every resolution).
Substitute(cz, step) ==
  LET job == IF StepDoc[step].job # Undefined /\ StepDoc[step].job # cz.job
             THEN StepDoc[step].job ELSE cz.job
  IN  [job |-> job,
       actions |-> cz.actions \cup JobDoc[job].actions \cup StepDoc[step].actions]

\* Lines 41-154: load the active Task, its workflow and its current step.
\* currentStep.name on a null step raises.
Resolve(t) ==
  LET c  == call[t]
      id == TasksFindOneActive(tasks, recent, c.extId)
  IN
  /\ c.pc = "start"
  /\ IF id = NoTask
     THEN call' = [call EXCEPT ![t] =
                     [c EXCEPT !.pc = "resolved", !.rows = Len(tasks),
                               !.found = NoTask]]
     ELSE LET step == StepsFindOne(tasks[id].currentStep) IN
          IF step = Undefined
          THEN call' = [call EXCEPT ![t] =
                          [c EXCEPT !.pc = "raised", !.rows = Len(tasks),
                                    !.found = id]]
          ELSE call' = [call EXCEPT ![t] =
                          [c EXCEPT !.pc = "resolved", !.rows = Len(tasks),
                                    !.found = id,
                                    !.taskDoc = [ _id         |-> id,
                                                  workflow    |-> tasks[id].workflow,
                                                  currentStep |-> tasks[id].currentStep ],
                                    !.workflow = tasks[id].workflow,
                                    !.currentStep = step]]
  /\ copilotz' = IF id # NoTask /\ StepsFindOne(tasks[id].currentStep) # Undefined
                 THEN Substitute(copilotz, tasks[id].currentStep)
                 ELSE copilotz
  /\ UNCHANGED <<tasks, recent, ignoreUndefined>>

\* Mutant of NeedsFetch: the history is fetched whatever the caller passed.
NeedsFetchAlways(c) == TRUE

\* if (!threadLogs || !threadLogs?.length)
NeedsFetch(c) == c.threadLogs = NoThreadLogs \/ c.threadLogs = 0

\* What getThreadHistory may give: nothing, or the last logged response with
\* its prompt, which passes the output schema or does not.
NoLog == [found |-> FALSE, prompt |-> 0, valid |-> TRUE]
LastLogs == {NoLog} \cup [found : {TRUE}, prompt : {1}, valid : BOOLEAN]

\* Lines 156-187 for a call without history: getThreadHistory is awaited;
\* a last log becomes its prompt followed by one assistant turn holding the
\* validated response (the validation is not guarded: a log that fails it
\* makes the call raise), no log becomes the empty history; then the
\* Reasoning Delegate is invoked.
CallDelegateFetching(t, lastLog) ==
  LET c == call[t] IN
  /\ c.pc = "resolved"
  /\ NeedsFetch(c)
  /\ IF lastLog.found /\ ~lastLog.valid
     THEN call' = [call EXCEPT ![t] = [c EXCEPT !.pc = "raised",
                                                !.fetches = @ + 1]]
     ELSE call' = [call EXCEPT ![t] =
                     [c EXCEPT !.pc = "delegate",
                               !.fetches = @ + 1,
                               !.threadLogs = IF lastLog.found
                                              THEN lastLog.prompt + 1 ELSE 0,
                               !.invocations = @ + 1]]
  /\ UNCHANGED <<tasks, recent, ignoreUndefined, copilotz>>

\* Lines 156-187 for a call with a history: nothing is fetched and the
\* Reasoning Delegate is invoked with the action modules.
CallDelegate(t) ==
  /\ call[t].pc = "resolved"
  /\ ~NeedsFetch(call[t])
  /\ call' = [call EXCEPT ![t].pc = "delegate",
                          ![t].invocations = @ + 1]
  /\ UNCHANGED <<tasks, recent, ignoreUndefined, copilotz>>

\* ------------------------------------------------- the Reasoning Delegate
\* The delegate invokes action modules one after another and reports each
\* invocation in functions, results filled from the action's return value,
\* status 'failed' when the action threw.
WorkflowNameArgs == {"ONBOARDING", "Support", "Billing", Undefined}
StepNameArgs == {"recover", "nosuch"}
SubmitStatuses == {"completed", "failed", "pending"}

Report(t, name, args, out, status) ==
  /\ tasks' = out.tasks
  /\ recent' = out.recent
  /\ call' = [call EXCEPT ![t] =
                [out.call EXCEPT !.functions =
                   Append(@, Func(name, args, out.results, status))]]
  /\ UNCHANGED <<ignoreUndefined, copilotz>>

Invoking(t) ==
  /\ call[t].pc = "delegate"
  /\ Len(call[t].functions) < MaxFuncs

StatusOf(out) == IF out.threw THEN "failed" ELSE "completed"

InvokeCreateTask(t, workflowName) ==
  LET out == createTask(tasks, recent, call[t], workflowName) IN
  /\ Invoking(t)
  /\ Len(out.tasks) <= MaxTasks
  /\ Report(t, "createTask", Undefined, out, StatusOf(out))

InvokeListSteps(t) ==
  LET out == listSteps(tasks, recent, call[t]) IN
  /\ Invoking(t)
  /\ Report(t, "listSteps", Undefined, out, StatusOf(out))

InvokeGetStep(t, name) ==
  LET out == getStep(tasks, recent, call[t], name) IN
  /\ Invoking(t)
  /\ Report(t, "getStep", Undefined, out, StatusOf(out))

InvokeSubmit(t, status) ==
  LET out == submit(tasks, recent, call[t], "data") IN
  /\ Invoking(t)
  /\ Report(t, "submit", "data", out, status)

InvokeChangeStep(t, name) ==
  LET out == changeStep(tasks, recent, call[t], name, ignoreUndefined) IN
  /\ Invoking(t)
  /\ Report(t, "changeStep", Undefined, out, StatusOf(out))

\* A function that is none of the five action modules (a step's own action).
InvokeOther(t) ==
  /\ Invoking(t)
  /\ Report(t, "sendEmail", Undefined,
            Outcome(FALSE, [sent |-> TRUE], tasks, recent, call[t]), "completed")

\* The messages a response may carry: a string, or none at all.
Messages == {"ok", Undefined}

\* ------------------------------------------------------- the Orchestrator
\* validate(jsonSchemaToShortSchema(outputSchema), functionCallAgentResponse)
\* under the base schema: message and functions are required, and every
\* function carries a name.  TRUE when validate returns, FALSE when it throws.
Validate(c) ==
  /\ c.message # Undefined
  /\ \A i \in DOMAIN c.functions : c.functions[i].name # Undefined

Acc(raised, payload, step) ==
  [raised |-> raised, payload |-> payload, currentStep |-> step]

\* Mutant of SubmitPassed: every passed submit completes the Task, whether
\* or not the step has a next.
SubmitPassedAlwaysCompletes(p, step) ==
  [p EXCEPT !.status = "completed", !.currentStep = StepDoc[step].next]

\* The submit branch for a submit whose status is not 'failed'.
SubmitPassed(p, step) ==
  [p EXCEPT !.status      = IF StepDoc[step].next = Undefined THEN "completed" ELSE @,
            !.currentStep = StepDoc[step].next]

\* Mutant of SubmitFailed: failedNext is written without the test that the
\* step has one.
SubmitFailedUnguarded(p, step) ==
  [p EXCEPT !.status = "failed", !.currentStep = StepDoc[step].failedNext]

\* The submit branch for a submit whose status is 'failed'.
SubmitFailed(p, step) ==
  [p EXCEPT !.status      = "failed",
            !.currentStep = IF StepDoc[step].failedNext # Undefined
                            THEN StepDoc[step].failedNext ELSE @]

\* One pass of the loop body over func, currentStep already bound to step.
ProcessFunc(c, func, step, p) ==
  IF func.name = "submit"
  THEN IF step = Undefined
       THEN Acc(TRUE, p, step)                 \* currentStep.next of undefined
       ELSE LET q == IF func.status # "failed"
                     THEN SubmitPassed(p, step) ELSE SubmitFailed(p, step)
                stepIndex == FindStepIndex(WorkflowById(c.workflow), step)
            IN  Acc(FALSE, [q EXCEPT !.steps = @ \cup {stepIndex}], step)
  ELSE IF func.name = "createTask"
  THEN Acc(FALSE, [p EXCEPT !.context     = "createdAt",
                            !.currentStep = Prop(func.results, "_id")], step)
  ELSE IF func.name = "changeStep"
  THEN Acc(FALSE, [p EXCEPT !.currentStep = Prop(func.results, "_id")], step)
  ELSE Acc(FALSE, p, step)

\* for (const func of taskManagerAgentResponse.functions), from the i-th on.
\* A still unbound currentStep is looked up in workflow.steps first, which
\* raises when no workflow is bound.
RECURSIVE ProcessFunctions(_, _, _)
ProcessFunctions(c, i, acc) ==
  IF acc.raised \/ i > Len(c.functions) THEN acc
  ELSE IF acc.currentStep = Undefined /\ c.workflow = Undefined
  THEN Acc(TRUE, acc.payload, Undefined)
  ELSE LET step == IF acc.currentStep = Undefined
                   THEN FindStepById(WorkflowById(c.workflow), c.taskDoc.currentStep)
                   ELSE acc.currentStep
       IN  ProcessFunctions(c, i + 1, ProcessFunc(c, c.functions[i], step, acc.payload))

\* updateTaskPayload after the loop (and whether the loop raised).
Interpreted(c) == ProcessFunctions(c, 1, Acc(FALSE, EmptyPayload, c.currentStep))

\* Mutant of NamesAction: submit does not count as an action module name.
NamesActionButSubmit(c) ==
  \E key \in ActionNames \ {"submit"} :
    \E i \in DOMAIN c.functions : c.functions[i].name = key

\* Some function name is an action module's.
NamesAction(c) ==
  \E key \in ActionNames : \E i \in DOMAIN c.functions : c.functions[i].name = key

\* Mutant of ShouldRecurse: the limit is tested with <= for <.
ShouldRecurseOffByOne(c, p) ==
  /\ PayloadKeys(p) > 0
  /\ NamesAction(c)
  /\ c.iterations <= maxIter

\* The guard of the recursive call.
ShouldRecurse(c, p) ==
  /\ PayloadKeys(p) > 0
  /\ NamesAction(c)
  /\ c.iterations < maxIter

\* Mutant of ShouldWrite: the write is skipped when the Task is no longer
\* active in the store (the row is looked at again before it is written).
ShouldWriteIfStillActive(c, p) ==
  /\ PayloadKeys(p) > 0
  /\ c.taskDoc._id # NoTask
  /\ tasks[c.taskDoc._id].status = "active"

\* The persistence write happens for a non-empty payload and a bound taskDoc.
ShouldWrite(c, p) == PayloadKeys(p) > 0 /\ c.taskDoc._id # NoTask

\* Mutant of FinalResponse: consumption.value is iterations, not
\* iterations + 1.
FinalResponseFromZero(c, valid) ==
  [ returned    |-> TRUE,
    message     |-> c.message,
    functions   |-> c.functions,
    error       |-> IF valid THEN Undefined ELSE "INVALID_RESPONSE",
    consumption |-> [type |-> "steps", value |-> c.iterations] ]

\* {prompt, ...taskManagerAgentResponse, consumption}
FinalResponse(c, valid) ==
  [ returned    |-> TRUE,
    message     |-> c.message,
    functions   |-> c.functions,
    error       |-> IF valid THEN Undefined ELSE "INVALID_RESPONSE",
    consumption |-> [type |-> "steps", value |-> c.iterations + 1] ]

\* Mutant of TryUpdate: the update is awaited outside any try/catch, so its
\* error reaches the caller.
TryUpdateUncaught(updateFails) ==
  [applied |-> ~updateFails, raised |-> updateFails]

\* try { await models.tasks.update(...) } catch (error) { console.error(...) }:
\* whether the write was applied, and whether an error leaves the statement.
TryUpdate(updateFails) ==
  [applied |-> ~updateFails, raised |-> FALSE]

\* Lines 188-314 up to the recursive call: the delegate returns
\* {prompt, message, functions}; validate, build the payload, write it, then
\* raise, recurse or return.  updateFails: the store rejects the write.
Respond(t, message, updateFails) ==
  LET c     == [call[t] EXCEPT !.message = message, !.pc = "responded"]
      valid == Validate(c)
      acc   == Interpreted(c)
      p     == acc.payload
      try   == IF ShouldWrite(c, p) THEN TryUpdate(updateFails)
               ELSE [applied |-> FALSE, raised |-> FALSE]
  IN
  /\ call[t].pc = "delegate"
  /\ updateFails => (~acc.raised /\ ShouldWrite(c, p))
  /\ IF acc.raised \/ try.raised
     THEN /\ call' = [call EXCEPT ![t] = [c EXCEPT !.pc = "raised",
                                                   !.updateFailed = updateFails]]
          /\ UNCHANGED <<tasks, recent>>
     ELSE /\ IF try.applied
             THEN /\ tasks' = TasksUpdate(tasks, c.taskDoc._id, p, ignoreUndefined)
                  /\ recent' = Touch(recent, c.taskDoc._id)
             ELSE UNCHANGED <<tasks, recent>>
          /\ IF ShouldRecurse(c, p)
             THEN \* the assistant turn of the recursive call validates again
                  call' = [call EXCEPT ![t] =
                             [c EXCEPT !.pc = IF valid THEN "recurse" ELSE "raised",
                                       !.written = try.applied,
                                       !.updateFailed = updateFails]]
             ELSE call' = [call EXCEPT ![t] =
                             [c EXCEPT !.pc = "returned",
                                       !.written = try.applied,
                                       !.updateFailed = updateFails,
                                       !.result = FinalResponse(c, valid)]]
  /\ UNCHANGED <<ignoreUndefined, copilotz>>

\* The iteration from the delegate's return on, the store accepting the write.
Interpret(t, message) == Respond(t, message, FALSE)

\* The same, models.tasks.update throwing (the store is down, the write is
\* rejected).
InterpretUpdateFails(t, message) == Respond(t, message, TRUE)

\* return await taskManager({input: '', threadLogs: [...threadLogs, {role:
\* 'assistant', content}], iterations: iterations + 1, ...}): a new
\* invocation with fresh taskDoc, workflow and currentStep bindings.  The
\* arguments name no instructions, outputSchema or overrideBaseOutputSchema.
Recurse(t) ==
  /\ call[t].pc = "recurse"
  /\ call' = [call EXCEPT ![t] =
                [IdleCall EXCEPT !.pc = "start",
                                 !.extId = call[t].extId,
                                 !.iterations = call[t].iterations + 1,
                                 !.input = "",
                                 !.threadLogs = call[t].threadLogs + 1,
                                 !.fetches = call[t].fetches,
                                 !.caller = call[t].caller,
                                 !.invocations = call[t].invocations]]
  /\ UNCHANGED <<tasks, recent, ignoreUndefined, copilotz>>

\* The caller has the returned object or the raised error; the turn is over.
Finish(t) ==
  /\ call[t].pc \in {"returned", "raised"}
  /\ call' = [call EXCEPT ![t] = IdleCall]
  /\ UNCHANGED <<tasks, recent, ignoreUndefined, copilotz>>

\* The steps of one turn.
TurnStep(t) ==
  \/ Resolve(t)
  \/ CallDelegate(t)
  \/ \E w \in WorkflowNameArgs : InvokeCreateTask(t, w)
  \/ InvokeListSteps(t)
  \/ \E n \in StepNameArgs : InvokeGetStep(t, n)
  \/ \E st \in SubmitStatuses : InvokeSubmit(t, st)
  \/ \E n \in StepNameArgs : InvokeChangeStep(t, n)
  \/ InvokeOther(t)
  \/ \E m \in Messages : Interpret(t, m)
  \/ Recurse(t)
  \/ Finish(t)

\* At most one turn in flight: every call runs in turn 1.
Next ==
  \/ \E e \in ExtIds : Start(1, e)
  \/ TurnStep(1)

Spec == Init /\ [][Next]_vars

\* The same turns on a store whose update may fail.
NextStoreFails ==
  \/ Next
  \/ \E m \in Messages : InterpretUpdateFails(1, m)

SpecStoreFails == Init /\ [][NextStoreFails]_vars

\* What a caller may pass as threadLogs: nothing, the empty history, a
\* history of one turn.
CallerThreadLogs == {NoThreadLogs, 0, 1}

\* The same turns for callers that pass a history or none, the call
\* fetching the history it was not given.
NextHistory ==
  \/ \E logs \in CallerThreadLogs : StartWith(1, "c1", logs)
  \/ TurnStep(1)
  \/ \E lastLog \in LastLogs : CallDelegateFetching(1, lastLog)

SpecHistory == Init /\ [][NextHistory]_vars

\* Two turns of one conversation in flight at once, each a single top-level
\* call whose awaits interleave with the other's; the delegate creates
\* Support Tasks and submits.
TurnStepConcurrent(t) ==
  \/ Start(t, "c1")
  \/ Resolve(t)
  \/ CallDelegate(t)
  \/ InvokeCreateTask(t, "Support")
  \/ \E st \in {"completed", "failed"} : InvokeSubmit(t, st)
  \/ Interpret(t, "ok")
  \/ Recurse(t)

NextConcurrent == \E t \in Turns : TurnStepConcurrent(t)

SpecConcurrent == Init /\ [][NextConcurrent]_vars

\* ===================================================================
\* Properties
\* ===================================================================
\* The iteration has interpreted its response: it is about to recurse, has
\* returned, or has raised after the delegate was invoked.
AfterInterpret(c) ==
  /\ c.pc \in {"recurse", "returned", "raised"}
  /\ c.invocations = c.iterations + 1

\* The names whose branch of the loop touches the pending update.
Transitioning == {"submit", "createTask", "changeStep"}

\* The positions in the response of functions with such a name.
TransitionsOf(c) == {i \in DOMAIN c.functions : c.functions[i].name \in Transitioning}

\* The steps that belong to the workflow with this _id.
StepsOf(workflowId) ==
  LET wf == WorkflowById(workflowId) IN {wf.steps[i] : i \in DOMAIN wf.steps}

\* The Tasks created since the iteration began.
NewTasks(c) == {i \in DOMAIN tasks : i > c.rows}

\* C1: with no active Task for the conversation, a response holding an
\* executed createTask for an available workflow leaves, after the
\* iteration's persistence, exactly one new Task for the extId, active and at
\* the selected workflow's firstStep.
C1_CreateTaskSeedsOneActiveTask ==
  \A t \in Turns :
    LET c == call[t] IN
    (/\ AfterInterpret(c)
     /\ c.found = NoTask
     /\ \E i \in DOMAIN c.functions :
          c.functions[i].name = "createTask" /\ c.functions[i].status = "completed")
    => /\ Cardinality(NewTasks(c)) = 1
       /\ \A i \in NewTasks(c) :
            /\ tasks[i].extId = c.extId
            /\ tasks[i].status = "active"
            /\ tasks[i].currentStep = WorkflowById(tasks[i].workflow).firstStep

\* What C2 promises of the row of the resolved Task after a passed submit.
SubmitAdvanced(c) ==
  LET next == StepDoc[c.currentStep].next IN
  IF next # Undefined
  THEN tasks[c.found].currentStep = next /\ tasks[c.found].status = "active"
  ELSE tasks[c.found].status = "completed"

\* C2 as stated: for an active Task and a validated response of any length
\* that contains a submit whose status is not 'failed', the persisted Task
\* ends the iteration at next and still active, or completed when the step
\* has no next.
C2_AnySubmitAdvances ==
  \A t \in Turns :
    LET c == call[t] IN
    (/\ AfterInterpret(c)
     /\ c.found # NoTask
     /\ Validate(c)
     /\ \E i \in DOMAIN c.functions :
          c.functions[i].name = "submit" /\ c.functions[i].status # "failed")
    => SubmitAdvanced(c)

\* C2 amended: the same, for a validated response (of any length) in which
\* that submit is the only submit, createTask or changeStep.
C2_SoleSubmitAdvances ==
  \A t \in Turns :
    LET c == call[t] IN
    (/\ AfterInterpret(c)
     /\ c.found # NoTask
     /\ Validate(c)
     /\ \E i \in DOMAIN c.functions :
          /\ c.functions[i].name = "submit" /\ c.functions[i].status # "failed"
          /\ TransitionsOf(c) = {i})
    => SubmitAdvanced(c)

\* A passed submit, accompanied by another function, has moved the Task from
\* a step with next to that next step.
C2_Witness ==
  \E t \in Turns :
    LET c == call[t] IN
    /\ AfterInterpret(c) /\ c.found # NoTask /\ Validate(c)
    /\ Len(c.functions) = 2
    /\ \E i \in DOMAIN c.functions :
         /\ c.functions[i].name = "submit" /\ c.functions[i].status = "pending"
         /\ TransitionsOf(c) = {i}
    /\ StepDoc[c.currentStep].next # Undefined
    /\ tasks[c.found].currentStep = StepDoc[c.currentStep].next
    /\ tasks[c.found].status = "active"

C4_InvalidResponseReturned ==
  \A t \in Turns :
    LET c == call[t] IN
    (AfterInterpret(c) /\ ~Validate(c))
    => /\ c.pc = "returned"
       /\ c.result.error = "INVALID_RESPONSE"
       /\ c.result.message = c.message
       /\ c.result.functions = c.functions

\* C5: an iteration whose response failed validation writes no update to
\* the task store.
C5_NoWriteBeforeValidation ==
  \A t \in Turns :
    LET c == call[t] IN
    (AfterInterpret(c) /\ ~Validate(c)) => ~c.written

\* The call is between its first line and its return or raise.
Running(c) == c.pc \in {"start", "resolved", "delegate", "recurse"}

\* A bound on the steps the call has left: the iterations it may still start,
\* each worth more than the steps of one iteration, plus what is left of the
\* current iteration.
StepsLeft(c) ==
  (maxIter - c.iterations) * (MaxFuncs + 4)
  + (CASE c.pc = "start"    -> MaxFuncs + 3
       [] c.pc = "resolved" -> MaxFuncs + 2
       [] c.pc = "delegate" -> MaxFuncs + 1 - Len(c.functions)
       [] OTHER             -> 0)

\* C6, the state part: iterations never exceeds maxIter, the delegate is
\* invoked at most 1 + maxIter times, a running call has steps left, and at
\* iterations = maxIter the iteration does not recurse: it raises only
\* from the loop over the functions, and otherwise returns its own message
\* and functions, with no error for a response that validates.
C6_Bounded ==
  \A t \in Turns :
    LET c == call[t] IN
    /\ c.iterations \in 0..maxIter
    /\ c.invocations <= maxIter + 1
    /\ c.pc = "start" => c.invocations = c.iterations
    /\ Running(c) => StepsLeft(c) > 0
    /\ (AfterInterpret(c) /\ c.iterations = maxIter) =>
         /\ c.pc # "recurse"
         /\ c.pc = "raised" => Interpreted(c).raised
         /\ c.pc = "returned" =>
              /\ c.result.message = c.message
              /\ c.result.functions = c.functions
              /\ Validate(c) => c.result.error = Undefined

\* C6, the step part: iterations changes only by the reset of a new
\* top-level call and by +1 on a recursive call, and every step of a running
\* call uses up some of the steps it has left.
C6_Step ==
  \A t \in Turns :
    /\ call'[t].iterations # call[t].iterations =>
         \/ call'[t].iterations = 0
         \/ /\ call[t].pc = "recurse"
            /\ call'[t].iterations = call[t].iterations + 1
    /\ (Running(call[t]) /\ call'[t] # call[t]) =>
         /\ StepsLeft(call'[t]) >= 0
         /\ StepsLeft(call'[t]) < StepsLeft(call[t])

\* C6: every top-level call terminates after at most 1 + maxIter delegate
\* invocations (StepsLeft is a natural number that every step of a running
\* call decreases, so no call runs forever); iterations starts at 0, grows
\* by exactly 1 per recursive call, never exceeds maxIter, and at maxIter the
\* response is returned as it is.
C6_RecursionBounded == [](C6_Bounded) /\ [][C6_Step]_vars

\* A call has reached iterations = maxIter with a response that would
\* recurse again, and has returned it.
C6_Witness ==
  \E t \in Turns :
    LET c == call[t] IN
    /\ c.pc = "returned" /\ c.iterations = maxIter /\ c.invocations = maxIter + 1
    /\ c.written /\ NamesAction(c) /\ Validate(c)
    /\ c.result.error = Undefined

\* C7: the returned consumption.value is the number of delegate invocations
\* of the top-level call, between 1 and 1 + maxIter, with type 'steps'.
C7_ConsumptionCountsIterations ==
  \A t \in Turns :
    LET c == call[t] IN
    c.pc = "returned" =>
      /\ c.result.consumption.type = "steps"
      /\ c.result.consumption.value = c.invocations
      /\ c.result.consumption.value \in 1..(maxIter + 1)

\* A call has returned after two recursive calls.
C7_Witness ==
  \E t \in Turns :
    /\ call[t].pc = "returned"
    /\ call[t].invocations = 3
    /\ call[t].result.consumption.value = 3

\* C8: with one turn in flight at a time, the store never holds two active
\* Tasks with the same extId.
C8_OneActiveTaskPerConversation ==
  \A e \in ExtIds :
    Cardinality({i \in DOMAIN tasks :
                   tasks[i].extId = e /\ tasks[i].status = "active"}) <= 1

\* C9: every Task's currentStep is the id of a step of the Task's workflow.
C9_CurrentStepInWorkflow ==
  \A i \in DOMAIN tasks : tasks[i].currentStep \in StepsOf(tasks[i].workflow)

\* The case of C10: the resolved Task is at a step without next and the
\* response's functions are exactly one submit with status 'completed'.
TerminalSubmit(c) ==
  /\ AfterInterpret(c)
  /\ c.found # NoTask
  /\ StepDoc[c.currentStep].next = Undefined
  /\ c.functions = <<Func("submit", "data", [args |-> "data"], "completed")>>

LastFunc(c) == c.functions[Len(c.functions)]

\* C11: when the response holds a changeStep that the action executed
\* successfully for step X, the persisted Task's currentStep at the end of
\* the iteration is X: the orchestrator's own update does not replace it.
C11_ChangeStepPersists ==
  \A t \in Turns :
    LET c == call[t] IN
    (AfterInterpret(c) /\ c.pc # "raised") =>
      \A i \in DOMAIN c.functions :
        (c.functions[i].name = "changeStep" /\ c.functions[i].status = "completed")
        => tasks[c.taskDoc._id].currentStep = c.functions[i].results.id

\* No step of the workflow bound in the call has this name.
NoStepNamed(c, name) ==
  \A s \in StepsOf(c.workflow) : StepDoc[s].name # name

\* C12, as a property of every step: an invocation of changeStep with a name
\* that matches no step of the resolved workflow raises (the delegate reports
\* it failed) and leaves the task store as it was.
C12_Step ==
  \A t \in Turns : \A n \in StepNameArgs :
    (InvokeChangeStep(t, n) /\ NoStepNamed(call[t], n))
    => /\ tasks' = tasks
       /\ recent' = recent
       /\ LastFunc(call'[t]).status = "failed"
       /\ LastFunc(call'[t]).results = [error |-> TRUE]

\* C12: changeStep(name) with a name that matches no step of the resolved
\* workflow raises before any write: the Task row is the same before and
\* after the failed call.
C12_ChangeStepUnknownNameNoWrite == [][C12_Step]_vars

\* A changeStep has failed in an iteration that had resolved a Task, whose
\* row still holds the step the iteration loaded.
C12_Witness ==
  \E t \in Turns :
    LET c == call[t] IN
    /\ c.pc = "delegate" /\ c.found # NoTask /\ c.functions # << >>
    /\ LastFunc(c) = Func("changeStep", Undefined, [error |-> TRUE], "failed")
    /\ tasks[c.found].currentStep = c.taskDoc.currentStep
    /\ tasks[c.found].status = "active"

\* No workflow of the combined collections has this name, compared
\* case-insensitively.
NoWorkflowNamed(w) ==
  \A i \in DOMAIN allWorkflows : ToLowerCase(allWorkflows[i].name) # ToLowerCase(w)

\* C13, as a property of every step: an invocation of createTask without a
\* workflowName, or with one that names no workflow, raises and leaves the
\* task store and the taskDoc/workflow bindings as they were.
C13_Step ==
  \A t \in Turns : \A w \in WorkflowNameArgs :
    (InvokeCreateTask(t, w) /\ (w = Undefined \/ NoWorkflowNamed(w)))
    => /\ tasks' = tasks
       /\ recent' = recent
       /\ call'[t].taskDoc = call[t].taskDoc
       /\ call'[t].workflow = call[t].workflow
       /\ LastFunc(call'[t]).status = "failed"
       /\ LastFunc(call'[t]).results = [error |-> TRUE]

\* C13: createTask raises and creates no Task row (store and in-memory
\* bindings unchanged) when workflowName is omitted or names no workflow of
\* the combined collections, compared case-insensitively.
C13_CreateTaskRejectsUnknownWorkflow == [][C13_Step]_vars

\* A createTask has failed with no Task of the conversation active: no row
\* was created and nothing is bound.
C13_Witness ==
  \E t \in Turns :
    LET c == call[t] IN
    /\ c.pc = "delegate" /\ c.functions # << >>
    /\ LastFunc(c) = Func("createTask", Undefined, [error |-> TRUE], "failed")
    /\ Len(tasks) = c.rows
    /\ c.taskDoc = NoTaskDoc /\ c.workflow = Undefined

\* C17, the state part: an iteration that has interpreted its response is
\* about to recurse exactly when its pending update is non-empty, some
\* function name is an action module's, and iterations < maxIter.
C17_RecursesIff ==
  \A t \in Turns :
    LET c == call[t] IN
    AfterInterpret(c) =>
      (c.pc = "recurse" <=> /\ PayloadKeys(Interpreted(c).payload) > 0
                            /\ NamesAction(c)
                            /\ c.iterations < maxIter)

\* C17, the step part: the recursive call gets iterations + 1, an empty
\* input, and the caller's history followed by exactly one assistant turn.
C17_Step ==
  \A t \in Turns :
    (call[t].pc = "recurse" /\ call'[t] # call[t])
    => /\ call'[t].pc = "start"
       /\ call'[t].iterations = call[t].iterations + 1
       /\ call'[t].input = ""
       /\ call'[t].threadLogs = call[t].threadLogs + 1

\* C17: an iteration recurses if and only if its pending update is
\* non-empty, at least one function name of the response is an action module
\* name, and iterations < 3; the recursive call receives iterations + 1, an
\* empty input, and the caller's history plus one assistant turn.
C17_RecursionRule == [](C17_RecursesIff) /\ [][C17_Step]_vars

\* C18: in both the NoActiveTask and the ActiveTask state, a validated
\* response whose functions list is non-empty but names none of submit,
\* createTask or changeStep gives an empty pending update: the call does not
\* raise, writes nothing, does not recurse, and returns the response with
\* consumption.
C18_OtherFunctionsNoEffect ==
  \A t \in Turns :
    LET c == call[t] IN
    (/\ AfterInterpret(c)
     /\ Validate(c)
     /\ c.functions # << >>
     /\ TransitionsOf(c) = {})
    => /\ c.pc = "returned"
       /\ ~c.written
       /\ c.result.message = c.message
       /\ c.result.functions = c.functions
       /\ c.result.consumption = [type |-> "steps", value |-> c.iterations + 1]

TerminalStatuses == {"completed", "failed"}

\* C19, the state part: while an iteration can still write (the delegate may
\* invoke changeStep, the orchestrator has not yet persisted), the Task its
\* taskDoc is bound to is active.
C19_BoundTaskActive ==
  \A t \in Turns :
    LET c == call[t] IN
    (c.pc \in {"resolved", "delegate"} /\ c.taskDoc._id # NoTask)
    => tasks[c.taskDoc._id].status = "active"

\* C19, the step part: no step removes a row or changes the status,
\* currentStep or context of a Task whose status is terminal.
C19_Step ==
  /\ Len(tasks') >= Len(tasks)
  /\ \A i \in DOMAIN tasks :
       tasks[i].status \in TerminalStatuses => tasks'[i] = tasks[i]

\* C19: with at most one turn in flight, terminal statuses are absorbing:
\* once a Task is 'completed' or 'failed', no later iteration or call changes
\* its status, currentStep or context, and no Task is ever deleted.
C19_TerminalAbsorbing == [](C19_BoundTaskActive) /\ [][C19_Step]_vars

\* An iteration that began with one Task in the store, none active, has
\* created a second Task and written its update, the first still terminal.
C19_Witness ==
  \E t \in Turns :
    LET c == call[t] IN
    /\ c.pc \in {"recurse", "returned"} /\ c.written
    /\ c.rows = 1 /\ c.found = NoTask /\ c.taskDoc._id = 2
    /\ tasks[1].status \in TerminalStatuses

\* The case of C20: the iteration resolved a Task at a step with failedNext
\* and the response's only submit, createTask or changeStep is a submit with
\* status 'failed'.
FailedSubmitWithFailedNext(c) ==
  /\ AfterInterpret(c)
  /\ c.found # NoTask
  /\ StepDoc[c.currentStep].failedNext # Undefined
  /\ \E i \in DOMAIN c.functions :
       /\ c.functions[i].name = "submit" /\ c.functions[i].status = "failed"
       /\ TransitionsOf(c) = {i}

\* C20, the state part: in that case the Task is stored failed at
\* failedNext, and the conversation has no active Task for the next
\* iteration to resolve.
C20_FailedStored ==
  \A t \in Turns :
    LET c == call[t] IN
    FailedSubmitWithFailedNext(c)
    => /\ tasks[c.found].status = "failed"
       /\ tasks[c.found].currentStep = StepDoc[c.currentStep].failedNext
       /\ TasksFindOneActive(tasks, recent, c.extId) = NoTask

\* C20, the step part: no resolution loads a Task whose status is 'failed'.
C20_Step ==
  \A t \in Turns :
    (call[t].pc = "start" /\ call'[t].pc = "resolved" /\ call'[t].found # NoTask)
    => tasks[call'[t].found].status # "failed"

\* C20: after a submit with status 'failed' on a step that has failedNext the
\* Task is stored with status 'failed' and currentStep = failedNext; from
\* then on no iteration resolves that Task as the active task, and the next
\* iteration runs in the NoActiveTask state.
C20_FailedNextNeverResumed == [](C20_FailedStored) /\ [][C20_Step]_vars

\* C14: when the orchestrator's write of the pending update fails, the error
\* does not reach the caller: nothing is written, and the iteration goes on
\* as it would after a successful write, to the recursive call when the
\* recursion rule holds and to the returned response with consumption
\* otherwise (it raises only where the second validation of a response that
\* fails the schema raises after a successful write too).
C14_UpdateFailureSwallowed ==
  \A t \in Turns :
    LET c == call[t]
        p == Interpreted(c).payload
    IN
    c.updateFailed
    => /\ ~c.written
       /\ c.pc \in {"recurse", "returned", "raised"}
       /\ c.pc = "raised" => (~Validate(c) /\ ShouldRecurse(c, p))
       /\ c.pc = "recurse" <=> (Validate(c) /\ ShouldRecurse(c, p))
       /\ c.pc = "returned" =>
            /\ c.result.message = c.message
            /\ c.result.functions = c.functions
            /\ c.result.consumption = [type |-> "steps", value |-> c.iterations + 1]

\* The write of a submit's update has failed and the call is about to
\* recurse, the Task still active at the step the iteration loaded.
C14_Witness ==
  \E t \in Turns :
    LET c == call[t] IN
    /\ c.updateFailed /\ c.pc = "recurse"
    /\ c.found # NoTask
    /\ \E i \in DOMAIN c.functions : c.functions[i].name = "submit"
    /\ tasks[c.found].status = "active"
    /\ tasks[c.found].currentStep = c.taskDoc.currentStep

\* C15, as a property of every step: the resolution at the start of an
\* iteration leaves the task store and the ambient copilot/job context with
\* its action list as they were.
C15_Step ==
  \A t \in Turns :
    Resolve(t) => /\ tasks' = tasks
                  /\ recent' = recent
                  /\ copilotz' = copilotz

\* C15: resolving the active Task is read-only: it writes nothing to the
\* task store and changes no state visible to later calls, the ambient
\* copilot/job context and its action list included.
C15_ResolveReadOnly == [][C15_Step]_vars

\* C16, as a property of every step: an iteration that ends with a
\* non-empty pending update and a bound taskDoc applies the update to the row
\* as the store holds it at that moment, whatever the other turn has written
\* since this iteration loaded the Task: nothing detects the other turn.
C16_Step ==
  \A t \in Turns :
    LET c  == call'[t]
        p  == Interpreted(c).payload
        id == c.taskDoc._id
    IN
    (/\ call[t].pc = "delegate"
     /\ c.pc \in {"recurse", "returned"}
     /\ PayloadKeys(p) > 0
     /\ id # NoTask)
    => /\ c.written
       /\ tasks' = TasksUpdate(tasks, id, p, ignoreUndefined)

\* C16: two turns of one conversation running concurrently race on
\* load-then-write: both may load the same active Task (or both find none)
\* before either writes, and both then apply their writes without detecting
\* the other.
C16_WritesUndetected == [][C16_Step]_vars

\* Both turns loaded the same active Task before either wrote; one turn's
\* completed submit moved it to 'completed', and the other turn's failed
\* submit was then written over it.
C16_Witness ==
  \E t \in Turns : \E u \in Turns \ {t} :
    LET c == call[t]
        d == call[u]
    IN
    /\ c.found # NoTask /\ d.found = c.found
    /\ AfterInterpret(c) /\ AfterInterpret(d)
    /\ c.written /\ d.written
    /\ c.functions = <<Func("submit", "data", [args |-> "data"], "completed")>>
    /\ d.functions = <<Func("submit", "data", [args |-> "data"], "failed")>>
    /\ StepDoc[c.currentStep].next = Undefined
    /\ tasks[c.found].status = "failed"

\* C21, the state part: a top-level call fetches the history at most once,
\* and every recursive iteration is called with a non-empty history.
C21_FetchedOnce ==
  \A t \in Turns :
    LET c == call[t] IN
    /\ c.fetches <= 1
    /\ (c.pc # "idle" /\ c.iterations > 0) => c.threadLogs > 0

\* C21, the step part: getThreadHistory is called only in iteration 0 of a
\* call whose caller passed no threadLogs or an empty one, and not twice.
C21_Step ==
  \A t \in Turns :
    call'[t].fetches > call[t].fetches
    => /\ call[t].iterations = 0
       /\ call[t].threadLogs \in {NoThreadLogs, 0}
       /\ call[t].fetches = 0

\* C21: the history is fetched from the history collaborator only when the
\* caller supplied no (or an empty) threadLogs, at most once per top-level
\* call and only in iteration 0: every recursive iteration is called with a
\* non-empty history and never calls getThreadHistory.
C21_HistoryFetchedOnlyAtStart == [](C21_FetchedOnce) /\ [][C21_Step]_vars

\* A call that fetched an empty history in iteration 0 is in a recursive
\* iteration, about to invoke the delegate on the one turn it appended.
C21_Witness ==
  \E t \in Turns :
    LET c == call[t] IN
    /\ c.pc = "resolved" /\ c.iterations = 1
    /\ c.fetches = 1 /\ c.threadLogs = 1

\* The instructions the iteration hands to the delegate: the prompt of the
\* resolver's outcome followed by the instructions parameter.
Instructions(c) ==
  <<IF c.found # NoTask THEN "taskManagerPrompt" ELSE "availableWorkflowsPrompt",
    c.instructions>>

\* C22: every iteration of one top-level call runs under the configuration
\* the caller supplied: the instructions, outputSchema and
\* overrideBaseOutputSchema of iteration 0 are the ones each recursive
\* iteration composes its prompt from and validates the response with.
C22_SameConfiguration ==
  \A t \in Turns :
    LET c == call[t] IN
    c.pc # "idle"
    => /\ Instructions(c)[2] = c.caller.instructions
       /\ OutputSchema(c) = OutputSchema(c.caller)

====
